---- MODULE Spec2Model ----
(***************************************************************************)
(* Model of the mtlog-analyzer Zed extension                               *)
(* (zed-extension/mtlog/src/lib.rs): the binary resolver with its cached   *)
(* path and the initialization-options builder.                            *)
(*                                                                         *)
(* Strings that the code builds with format! are sequences of tokens, so   *)
(* that "<GOBIN>/mtlog-lsp" is a real concatenation.  JSON values are      *)
(* tagged records.  Option and Result are tagged records as well.          *)
(***************************************************************************)
EXTENDS Naturals, Sequences, FiniteSets, TLC

VARIABLES cached_binary_path, last

vars == <<cached_binary_path, last>>

(***************************************************************************)
(* Option<T> and Result<T, String>                                         *)
(***************************************************************************)
None == [some |-> FALSE]

Some(x) == [some |-> TRUE, value |-> x]

Ok(x) == [ok |-> TRUE, value |-> x]

Err(e) == [ok |-> FALSE, err |-> e]

(***************************************************************************)
(* serde_json::Value                                                       *)
(***************************************************************************)
JNull == [kind |-> "null"]

JBool(b) == [kind |-> "bool", b |-> b]

JString(s) == [kind |-> "string", s |-> s]

JArray(items) == [kind |-> "array", items |-> items]

JObject(members) == [kind |-> "object", members |-> members]

\* Value::get(&str): a member of an object, None for a missing member and
\* for every value that is not an object.
Get(v, key) ==
    IF v.kind = "object" /\ key \in DOMAIN v.members
    THEN Some(v.members[key])
    ELSE None

\* Option::unwrap_or
UnwrapOr(opt, default) == IF opt.some THEN opt.value ELSE default

(***************************************************************************)
(* Bounds of the host inputs                                               *)
(***************************************************************************)
\* Directory values of environment variables are the prefixes, of at most
\* MaxDepth segments, of /x/go/bin.
MaxDepth == 2

GoTree == <<"/", "x", "/", "go", "/", "bin">>

Dirs == {SubSeq(GoTree, 1, 2 * n) : n \in 1..MaxDepth}

EnvNames == {"GOBIN", "GOPATH", "HOME"}

\* A variable the search never reads, and its value.
OtherName == "SHELL"

OtherValue == <<"/", "bin", "/", "sh">>

\* worktree.shell_env(), collected into a map: a partial map from variable
\* names to values.  The unrelated variable comes alone or next to one of
\* the variables the search reads.
ShellEnvs ==
    UNION {[names -> Dirs] : names \in SUBSET EnvNames}
    \cup {[n \in {OtherName} |-> OtherValue]}
    \cup {[n \in {name, OtherName} |-> IF n = OtherName THEN OtherValue ELSE dir] :
            name \in EnvNames, dir \in Dirs}

\* worktree.which("mtlog-lsp")
WhichResults == {None, Some(<<"/", "x", "/", "go", "/", "bin", "/", "mtlog-lsp">>)}

\* lsp_settings.binary: Option<CommandSettings>, with its optional path and
\* optional arguments.
ExplicitPath == <<"/", "x", "/", "mtlog-lsp">>

BinarySettings ==
    {None,
     Some([path |-> None, arguments |-> None]),
     Some([path |-> Some(ExplicitPath), arguments |-> None]),
     Some([path |-> Some(ExplicitPath), arguments |-> Some(<<"--debug">>)])}

\* Errors of LspSettings::for_worktree.
SettingsErrors == {"invalid type: expected a map", "EOF while parsing"}

RecognizedKeys ==
    {"suppressedCodes", "severityOverrides", "disableAll",
     "commonKeys", "strictMode", "ignoreDynamicTemplates"}

\* A value a user would write under each key, none of them the default.
UserValue(key) ==
    CASE key = "suppressedCodes" -> JArray(<<JString("MTLOG001")>>)
      [] key = "severityOverrides" ->
            JObject([k \in {"MTLOG002"} |-> JString("warning")])
      [] key = "commonKeys" -> JArray(<<JString("user_id")>>)
      [] OTHER -> JBool(TRUE)

\* Legacy "settings" documents: every subset of the recognized keys with
\* user values, and documents of other shapes.
LegacyDocs ==
    {JObject([k \in keys |-> UserValue(k)]) : keys \in SUBSET RecognizedKeys}
    \cup {JObject([k \in {"mtlog"} |-> JObject([j \in {"strictMode"} |-> JBool(TRUE)])]),
          JObject([k \in {"strictMode", "logLevel"} |->
                      IF k = "strictMode" THEN JBool(TRUE) ELSE JString("debug")]),
          JObject([k \in {"disableAll"} |-> JNull]),
          JObject([k \in {"strictMode"} |-> JBool(FALSE)]),
          JArray(<<JString("strictMode")>>),
          JBool(TRUE)}

\* "initialization_options" documents.
InitOptionDocs ==
    {JObject(<<>>),
     JObject([k \in {"suppressedCodes"} |-> UserValue(k)]),
     JObject([k \in RecognizedKeys |-> UserValue(k)]),
     JObject([k \in {"strictMode", "logLevel"} |->
                 IF k = "strictMode" THEN JBool(TRUE) ELSE JString("debug")]),
     JBool(FALSE)}

OptionOf(S) == {None} \cup {Some(x) : x \in S}

\* Results of LspSettings::for_worktree as language_server_command reads
\* them (it reads the binary field only).
CommandSettingsResults ==
    {Err(e) : e \in SettingsErrors}
    \cup {Ok([binary |-> b, initialization_options |-> None, settings |-> None]) :
            b \in BinarySettings}

\* Results of LspSettings::for_worktree as
\* language_server_initialization_options reads them (it reads the
\* initialization_options and settings fields only).
InitSettingsResults ==
    {Err(e) : e \in SettingsErrors}
    \cup {Ok([binary |-> None, initialization_options |-> i, settings |-> s]) :
            i \in OptionOf(InitOptionDocs), s \in OptionOf(LegacyDocs)}

(***************************************************************************)
(* MtlogAnalyzerExtension::find_mtlog_lsp                                  *)
(***************************************************************************)
\* format!("{}/mtlog-lsp", gobin) and its siblings
Format(dir, suffix) == dir \o suffix

\* Faulty variant: GOPATH/bin is tried before GOBIN.
find_mtlog_lsp_GopathFirst(lsp_settings, which, env) ==
    IF /\ lsp_settings.ok
       /\ lsp_settings.value.binary.some
       /\ lsp_settings.value.binary.value.path.some
    THEN Some(lsp_settings.value.binary.value.path.value)
    ELSE IF which.some
    THEN Some(which.value)
    ELSE IF "GOPATH" \in DOMAIN env
    THEN Some(Format(env["GOPATH"], <<"/", "bin", "/", "mtlog-lsp">>))
    ELSE IF "GOBIN" \in DOMAIN env
    THEN Some(Format(env["GOBIN"], <<"/", "mtlog-lsp">>))
    ELSE IF "HOME" \in DOMAIN env
    THEN Some(Format(env["HOME"], <<"/", "go", "/", "bin", "/", "mtlog-lsp">>))
    ELSE None

\* Faulty variant: the /usr/local/bin fallback of the doc comment's step 6
\* instead of None.
find_mtlog_lsp_Fallback(lsp_settings, which, env) ==
    IF /\ lsp_settings.ok
       /\ lsp_settings.value.binary.some
       /\ lsp_settings.value.binary.value.path.some
    THEN Some(lsp_settings.value.binary.value.path.value)
    ELSE IF which.some
    THEN Some(which.value)
    ELSE IF "GOBIN" \in DOMAIN env
    THEN Some(Format(env["GOBIN"], <<"/", "mtlog-lsp">>))
    ELSE IF "GOPATH" \in DOMAIN env
    THEN Some(Format(env["GOPATH"], <<"/", "bin", "/", "mtlog-lsp">>))
    ELSE IF "HOME" \in DOMAIN env
    THEN Some(Format(env["HOME"], <<"/", "go", "/", "bin", "/", "mtlog-lsp">>))
    ELSE Some(<<"/", "usr", "/", "local", "/", "bin", "/", "mtlog-lsp">>)

\* Faulty variant: a failed settings fetch ends the search (a `?` on the
\* fetch instead of `if let Ok`).
find_mtlog_lsp_FetchOrNone(lsp_settings, which, env) ==
    IF ~lsp_settings.ok
    THEN None
    ELSE IF /\ lsp_settings.value.binary.some
            /\ lsp_settings.value.binary.value.path.some
    THEN Some(lsp_settings.value.binary.value.path.value)
    ELSE IF which.some
    THEN Some(which.value)
    ELSE IF "GOBIN" \in DOMAIN env
    THEN Some(Format(env["GOBIN"], <<"/", "mtlog-lsp">>))
    ELSE IF "GOPATH" \in DOMAIN env
    THEN Some(Format(env["GOPATH"], <<"/", "bin", "/", "mtlog-lsp">>))
    ELSE IF "HOME" \in DOMAIN env
    THEN Some(Format(env["HOME"], <<"/", "go", "/", "bin", "/", "mtlog-lsp">>))
    ELSE None

find_mtlog_lsp(lsp_settings, which, env) ==
    IF /\ lsp_settings.ok
       /\ lsp_settings.value.binary.some
       /\ lsp_settings.value.binary.value.path.some
    THEN Some(lsp_settings.value.binary.value.path.value)
    ELSE IF which.some
    THEN Some(which.value)
    ELSE IF "GOBIN" \in DOMAIN env
    THEN Some(Format(env["GOBIN"], <<"/", "mtlog-lsp">>))
    ELSE IF "GOPATH" \in DOMAIN env
    THEN Some(Format(env["GOPATH"], <<"/", "bin", "/", "mtlog-lsp">>))
    ELSE IF "HOME" \in DOMAIN env
    THEN Some(Format(env["HOME"], <<"/", "go", "/", "bin", "/", "mtlog-lsp">>))
    ELSE None

(***************************************************************************)
(* Extension::language_server_command                                      *)
(***************************************************************************)
NotFoundMessage ==
    "mtlog-lsp not found in PATH or standard Go locations.\nSearched: PATH, $GOBIN, $GOPATH/bin, ~/go/bin\nPlease install with: go install github.com/willibrandon/mtlog/cmd/mtlog-lsp@latest"

\* Faulty variant: the server is started with an argument.
Command_WithStdio(binary_path) ==
    [command |-> binary_path, args |-> <<"--stdio">>, env |-> <<>>]

\* Command { command, args: vec![], env: Default::default() }
Command(binary_path) == [command |-> binary_path, args |-> <<>>, env |-> <<>>]

\* The branch taken: does the call run find_mtlog_lsp?
CommandSearches(self) == ~self.some

\* The returned Result<Command>.
CommandResult(self, lsp_settings, which, env) ==
    IF self.some
    THEN Ok(Command(self.value))
    ELSE LET path == find_mtlog_lsp(lsp_settings, which, env)
         IN  IF path.some THEN Ok(Command(path.value)) ELSE Err(NotFoundMessage)

\* Faulty variant: every call probes again and stores what it finds.
CommandCache_Reprobe(self, lsp_settings, which, env) ==
    LET path == find_mtlog_lsp(lsp_settings, which, env)
    IN  IF path.some THEN Some(path.value) ELSE self

\* self.cached_binary_path after the call.
CommandCache(self, lsp_settings, which, env) ==
    IF self.some
    THEN self
    ELSE LET path == find_mtlog_lsp(lsp_settings, which, env)
         IN  IF path.some THEN Some(path.value) ELSE self

language_server_command ==
    \E lsp_settings \in CommandSettingsResults, which \in WhichResults,
       env \in ShellEnvs :
        /\ cached_binary_path' =
               CommandCache(cached_binary_path, lsp_settings, which, env)
        /\ last' = [op |-> "command",
                    before |-> cached_binary_path,
                    searched |-> CommandSearches(cached_binary_path),
                    lsp_settings |-> lsp_settings,
                    which |-> which,
                    env |-> env,
                    result |-> CommandResult(cached_binary_path, lsp_settings,
                                             which, env)]

(***************************************************************************)
(* Extension::language_server_initialization_options                       *)
(***************************************************************************)
\* serde_json::json!([]), json!({}), json!(false)
DefaultValue(key) ==
    CASE key \in {"suppressedCodes", "commonKeys"} -> JArray(<<>>)
      [] key = "severityOverrides" -> JObject(<<>>)
      [] OTHER -> JBool(FALSE)

\* Faulty variant: every key of the legacy document is forwarded.
LegacyOptions_ForwardAll(settings) ==
    JObject([key \in RecognizedKeys \cup
                     (IF settings.kind = "object"
                      THEN DOMAIN settings.members ELSE {}) |->
                UnwrapOr(Get(settings, key), DefaultValue(key))])

\* Faulty variant: only the keys the legacy document holds are sent.
LegacyOptions_NoDefaults(settings) ==
    JObject([key \in {k \in RecognizedKeys : Get(settings, k).some} |->
                Get(settings, key).value])

\* The six-key document built from the legacy settings.
LegacyOptions(settings) ==
    JObject([key \in RecognizedKeys |->
                UnwrapOr(Get(settings, key), DefaultValue(key))])

\* Faulty variant: the legacy keys and the defaults are merged into the
\* initialization options.
InitOptionsResult_Merge(self, lsp_settings) ==
    IF ~lsp_settings.ok
    THEN Err(lsp_settings.err)
    ELSE LET legacy == UnwrapOr(lsp_settings.value.settings, JObject(<<>>))
             init == UnwrapOr(lsp_settings.value.initialization_options,
                              JObject(<<>>))
         IN  Ok(Some(JObject([key \in RecognizedKeys |->
                 UnwrapOr(Get(init, key),
                          UnwrapOr(Get(legacy, key), DefaultValue(key)))])))

\* Faulty variant: the options of the previous call are kept and returned
\* again.
InitOptionsResult_Cached(self, lsp_settings) ==
    IF last.op = "init" /\ last.result.ok
    THEN last.result
    ELSE IF ~lsp_settings.ok
    THEN Err(lsp_settings.err)
    ELSE IF lsp_settings.value.initialization_options.some
    THEN Ok(Some(lsp_settings.value.initialization_options.value))
    ELSE Ok(Some(JObject([key \in RecognizedKeys |->
             UnwrapOr(Get(UnwrapOr(lsp_settings.value.settings, JObject(<<>>)),
                          key),
                      DefaultValue(key))])))

\* Faulty variant: a failed settings fetch yields the defaults.
InitOptionsResult_SwallowError(self, lsp_settings) ==
    IF ~lsp_settings.ok
    THEN Ok(Some(JObject([key \in RecognizedKeys |-> DefaultValue(key)])))
    ELSE IF lsp_settings.value.initialization_options.some
    THEN Ok(Some(lsp_settings.value.initialization_options.value))
    ELSE Ok(Some(JObject([key \in RecognizedKeys |->
             UnwrapOr(Get(UnwrapOr(lsp_settings.value.settings, JObject(<<>>)),
                          key),
                      DefaultValue(key))])))

\* The returned Result<Option<Value>>.
InitOptionsResult(self, lsp_settings) ==
    IF ~lsp_settings.ok
    THEN Err(lsp_settings.err)
    ELSE IF lsp_settings.value.initialization_options.some
    THEN Ok(Some(lsp_settings.value.initialization_options.value))
    ELSE Ok(Some(LegacyOptions(
             UnwrapOr(lsp_settings.value.settings, JObject(<<>>)))))

language_server_initialization_options ==
    \E lsp_settings \in InitSettingsResults :
        /\ cached_binary_path' = cached_binary_path
        /\ last' = [op |-> "init",
                    before |-> cached_binary_path,
                    lsp_settings |-> lsp_settings,
                    result |-> InitOptionsResult(cached_binary_path, lsp_settings)]

(***************************************************************************)
(* Extension::new and the host's calls                                     *)
(***************************************************************************)
Init ==
    /\ cached_binary_path = None
    /\ last = [op |-> "new"]

Next ==
    \/ language_server_command
    \/ language_server_initialization_options

Spec == Init /\ [][Next]_vars

(***************************************************************************)
(* Properties                                                              *)
(***************************************************************************)
IsCommand == last.op = "command"

IsInit == last.op = "init"

\* The candidate of each source of a resolve call, in priority order,
\* stated from the documented search order.
Candidates(call) ==
    << IF call.lsp_settings.ok
       THEN LET b == call.lsp_settings.value.binary
            IN  IF b.some THEN b.value.path ELSE None
       ELSE None,
       call.which,
       IF "GOBIN" \in DOMAIN call.env
       THEN Some(call.env["GOBIN"] \o <<"/", "mtlog-lsp">>) ELSE None,
       IF "GOPATH" \in DOMAIN call.env
       THEN Some(call.env["GOPATH"] \o <<"/", "bin">> \o <<"/", "mtlog-lsp">>)
       ELSE None,
       IF "HOME" \in DOMAIN call.env
       THEN Some(call.env["HOME"] \o <<"/", "go">> \o <<"/", "bin">>
                 \o <<"/", "mtlog-lsp">>)
       ELSE None >>

Present(call, from) == {i \in from..5 : Candidates(call)[i].some}

First(S) == CHOOSE i \in S : \A j \in S : i <= j

\* C1: with an empty cache, resolve returns the candidate of the
\* highest-priority present source (settings path, PATH hit, GOBIN, GOPATH,
\* HOME) and nothing else.
C1_PriorityOrder ==
    (IsCommand /\ ~last.before.some /\ Present(last, 1) # {}) =>
        /\ last.result.ok
        /\ last.result.value.command =
               Candidates(last)[First(Present(last, 1))].value

\* GOBIN and GOPATH both set, nothing of higher priority, and GOBIN won.
C1_Witness ==
    /\ IsCommand /\ ~last.before.some
    /\ Present(last, 1) = {3, 4}
    /\ Candidates(last)[3] # Candidates(last)[4]
    /\ last.result.ok
    /\ last.result.value.command = last.env["GOBIN"] \o <<"/", "mtlog-lsp">>

\* C2: once a resolve has succeeded, no later call changes or clears the
\* cached path, and every later resolve returns it without searching,
\* whatever the host reports then.
C2_CacheIsSticky ==
    [][cached_binary_path.some =>
        /\ cached_binary_path' = cached_binary_path
        /\ (last'.op = "command" =>
               /\ ~last'.searched
               /\ last'.result.ok
               /\ last'.result.value.command = cached_binary_path.value)]_vars

\* A resolve served from the cache although a fresh search would have
\* given another path, or none.
C2_Witness ==
    /\ IsCommand /\ last.before.some
    /\ last.result.ok
    /\ last.result.value.command = last.before.value
    /\ \/ Present(last, 1) = {}
       \/ /\ Present(last, 1) # {}
          /\ Candidates(last)[First(Present(last, 1))].value # last.before.value

InitOptions == last.lsp_settings.value.initialization_options

Legacy == last.lsp_settings.value.settings

SixKeys ==
    {"suppressedCodes", "severityOverrides", "disableAll", "commonKeys",
     "strictMode", "ignoreDynamicTemplates"}

\* C4: with an initialization-options sub-document present, buildOptions
\* returns exactly that sub-document, whatever the legacy settings hold.
C4_PassThrough ==
    (IsInit /\ last.lsp_settings.ok /\ InitOptions.some) =>
        last.result = Ok(Some(InitOptions.value))

\* A partial initialization-options document next to a legacy document
\* that sets other recognized keys.
C4_Witness ==
    /\ IsInit /\ last.lsp_settings.ok
    /\ InitOptions.some /\ InitOptions.value.kind = "object"
    /\ DOMAIN InitOptions.value.members = {"suppressedCodes"}
    /\ Legacy.some /\ Legacy.value.kind = "object"
    /\ "strictMode" \in DOMAIN Legacy.value.members
    /\ last.result = Ok(Some(InitOptions.value))

\* The documented default of each key.
DocumentedDefault ==
    [suppressedCodes |-> JArray(<<>>),
     severityOverrides |-> JObject(<<>>),
     disableAll |-> JBool(FALSE),
     commonKeys |-> JArray(<<>>),
     strictMode |-> JBool(FALSE),
     ignoreDynamicTemplates |-> JBool(FALSE)]

\* The keys of the legacy document (none when it is absent or no object).
LegacyKeys ==
    IF Legacy.some /\ Legacy.value.kind = "object"
    THEN DOMAIN Legacy.value.members ELSE {}

\* C5: without an initialization-options sub-document, buildOptions returns
\* exactly the six keys, each with the legacy value if present and its
\* documented default otherwise; other legacy keys are dropped.
C5_LegacyWithDefaults ==
    (IsInit /\ last.lsp_settings.ok /\ ~InitOptions.some) =>
        /\ last.result.ok /\ last.result.value.some
        /\ LET doc == last.result.value.value
           IN  /\ doc.kind = "object"
               /\ DOMAIN doc.members = SixKeys
               /\ \A k \in SixKeys :
                    doc.members[k] =
                        IF k \in LegacyKeys
                        THEN Legacy.value.members[k]
                        ELSE DocumentedDefault[k]

\* Legacy settings with one recognized and one unrecognized key.
C5_Witness ==
    /\ IsInit /\ last.lsp_settings.ok /\ ~InitOptions.some
    /\ LegacyKeys = {"strictMode", "logLevel"}
    /\ last.result.ok
    /\ last.result.value.value.members["strictMode"] = JBool(TRUE)
    /\ last.result.value.value.members["disableAll"] = JBool(FALSE)
    /\ "logLevel" \notin DOMAIN last.result.value.value.members

HasSixKeys(doc) == doc.kind = "object" /\ DOMAIN doc.members = SixKeys

\* C6 as stated: every document buildOptions returns has exactly the six
\* recognized keys.
C6_AlwaysSixKeys ==
    (IsInit /\ last.result.ok) =>
        /\ last.result.value.some
        /\ HasSixKeys(last.result.value.value)

\* C6 as amended: a returned document has exactly the six recognized keys
\* when the settings hold no initialization-options sub-document, and is
\* that sub-document itself, of whatever shape, when they hold one.
C6_SixKeysUnlessPassThrough ==
    (IsInit /\ last.result.ok) =>
        /\ last.result.value.some
        /\ last.lsp_settings.ok
        /\ IF InitOptions.some
           THEN last.result.value.value = InitOptions.value
           ELSE HasSixKeys(last.result.value.value)

\* A legacy document that is no object still yields the six keys.
C6_Witness ==
    /\ IsInit /\ last.lsp_settings.ok /\ ~InitOptions.some
    /\ Legacy.some /\ Legacy.value.kind # "object"
    /\ last.result.ok
    /\ HasSixKeys(last.result.value.value)

\* The result that a settings snapshot alone calls for.
Reflects(result, lsp_settings) ==
    IF ~lsp_settings.ok
    THEN result = Err(lsp_settings.err)
    ELSE /\ result.ok /\ result.value.some
         /\ LET s == lsp_settings.value
                doc == result.value.value
            IN  IF s.initialization_options.some
                THEN doc = s.initialization_options.value
                ELSE /\ HasSixKeys(doc)
                     /\ \A k \in SixKeys :
                          IF s.settings.some /\ s.settings.value.kind = "object"
                             /\ k \in DOMAIN s.settings.value.members
                          THEN doc.members[k] = s.settings.value.members[k]
                          ELSE doc.members[k] = DocumentedDefault[k]

\* C7: buildOptions is not cached: each call's result is the one its own
\* settings snapshot calls for, after any earlier call and with any cached
\* path, and a call with changed settings does not repeat the result of the
\* call before it.
C7_NotCached ==
    [][last'.op = "init" =>
        /\ Reflects(last'.result, last'.lsp_settings)
        /\ (IsInit /\ ~Reflects(last.result, last'.lsp_settings)) =>
               last'.result # last.result]_vars

\* A buildOptions call on an instance whose resolver has a cached path,
\* with legacy settings that are not the defaults.
C7_Witness ==
    /\ IsInit /\ last.before.some
    /\ last.lsp_settings.ok /\ ~InitOptions.some
    /\ "strictMode" \in LegacyKeys
    /\ last.result.ok
    /\ last.result.value.value.members["strictMode"] = JBool(TRUE)

\* C8: a launch descriptor returned by resolve has no arguments and no
\* environment, and its command is the path the cache holds after the call.
C8_DescriptorShape ==
    (IsCommand /\ last.result.ok) =>
        /\ last.result.value.args = <<>>
        /\ last.result.value.env = <<>>
        /\ cached_binary_path = Some(last.result.value.command)

\* A fresh resolve from settings that also carry arguments.
C8_Witness ==
    /\ IsCommand /\ ~last.before.some
    /\ last.lsp_settings.ok
    /\ last.lsp_settings.value.binary.some
    /\ last.lsp_settings.value.binary.value.arguments.some
    /\ last.result.ok
    /\ last.result.value.args = <<>>

\* C9: buildOptions fails exactly when the settings fetch fails, then with
\* the host's error unchanged; otherwise it returns a document.
C9_FailsOnlyOnFetchError ==
    IsInit =>
        /\ last.result.ok <=> last.lsp_settings.ok
        /\ ~last.lsp_settings.ok => last.result = Err(last.lsp_settings.err)
        /\ last.lsp_settings.ok => last.result.value.some

\* A failed fetch handed back as it came.
C9_Witness ==
    /\ IsInit /\ ~last.lsp_settings.ok
    /\ last.result = Err("EOF while parsing")

\* C10: a settings fetch failure during resolve counts as an absent
\* explicit path: the search goes on with PATH, GOBIN, GOPATH, HOME, and
\* the only error of resolve is the not-found error, with all of them absent.
C10_FetchFailureIsAbsentPath ==
    IsCommand =>
        /\ (~last.before.some /\ ~last.lsp_settings.ok
               /\ Present(last, 2) # {}) =>
               /\ last.result.ok
               /\ last.result.value.command =
                      Candidates(last)[First(Present(last, 2))].value
        /\ ~last.result.ok =>
               /\ last.result.err = NotFoundMessage
               /\ last.result.err \notin SettingsErrors
               /\ Present(last, 2) = {}

\* The fetch failed and the search went on to GOPATH.
C10_Witness ==
    /\ IsCommand /\ ~last.before.some
    /\ ~last.lsp_settings.ok
    /\ Present(last, 2) = {4, 5}
    /\ last.result.ok
    /\ last.result.value.command =
           last.env["GOPATH"] \o <<"/", "bin", "/", "mtlog-lsp">>

====
